---- MODULE Spec2Model ----
(***************************************************************************)
(* Model of masterfile.py: the incremental fetch-and-merge run of the ICC  *)
(* rankings scraper.                                                       *)
(*                                                                         *)
(* Dates are day numbers counted from 1971-01-01 (day 0); the weekday of   *)
(* day d is (d + 4) % 7 with Monday = 0, as datetime.weekday() gives it.   *)
(* Cell texts are sequences of character codes, so that parsing, printing  *)
(* and the lexicographic order of strings are computed, not assumed.       *)
(* A data-frame cell is a typed value: pandas keeps an int64, a float64,   *)
(* a str or a missing value (NaN) apart, and so does the model.            *)
(***************************************************************************)
EXTENDS Integers, Sequences, FiniteSets, TLC

\* ---------------- CONFIG ----------------
FORMATS == <<"odi", "test">>
CATEGORIES == <<"batting", "bowling">>
MAX_RETRIES == 3
MaxRows == 100
HTTP_OK == 200
EpochDay == 0
MinutesPerDay == 1440
IstOffset == 330

\* ---------------- texts ----------------
\* character codes of the characters the cell texts are made of
Chr == [sp |-> 32, dot |-> 46, d0 |-> 48, d9 |-> 57, eq |-> 61, A |-> 65, B |-> 66]
Ch0 == Chr.d0
Ch9 == Chr.d9
ChDot == Chr.dot
ChSp == Chr.sp

Range(s) == {s[i] : i \in 1..Len(s)}

Min(a, b) == IF a <= b THEN a ELSE b

IsDigits(s) == Len(s) > 0 /\ \A i \in 1..Len(s) : s[i] \in Ch0..Ch9

RECURSIVE ParseInt(_)
ParseInt(s) ==
    IF Len(s) = 0 THEN 0
    ELSE 10 * ParseInt(SubSeq(s, 1, Len(s) - 1)) + (s[Len(s)] - Ch0)

RECURSIVE IntText(_)
IntText(n) ==
    IF n < 10 THEN <<Ch0 + n>>
    ELSE Append(IntText(n \div 10), Ch0 + (n % 10))

\* the text of a float with a zero fraction, as str(900.0) prints it
IsFloatText(s) ==
    /\ Len(s) >= 3
    /\ s[Len(s) - 1] = ChDot
    /\ s[Len(s)] = Ch0
    /\ IsDigits(SubSeq(s, 1, Len(s) - 2))

\* str.__lt__: lexicographic by code point
RECURSIVE TextLess(_, _)
TextLess(a, b) ==
    IF Len(b) = 0 THEN FALSE
    ELSE IF Len(a) = 0 THEN TRUE
    ELSE IF a[1] # b[1] THEN a[1] < b[1]
    ELSE TextLess(Tail(a), Tail(b))

\* ---------------- typed cells ----------------
IntV(n) == [k |-> "int", n |-> n, s |-> <<>>]
FloatV(n) == [k |-> "float", n |-> n, s |-> <<>>]
StrV(s) == [k |-> "str", n |-> 0, s |-> s]
NaN == [k |-> "nan", n |-> 0, s |-> <<>>]


\* ---------------- dates ----------------
\* lengths of the months of 1971, the year the harvested history starts in
MonthLen == <<31, 28, 31, 30, 31, 30, 31, 31, 30, 31, 30, 31>>
BaseYear == 1971

RECURSIVE MonthOf(_, _)
MonthOf(d, m) == IF d < MonthLen[m] THEN <<m, d + 1>> ELSE MonthOf(d - MonthLen[m], m + 1)

\* date_obj.strftime("%Y/%m/%d"): the text is kept as its three numeric fields
Strftime(d) == <<BaseYear, MonthOf(d, 1)[1], MonthOf(d, 1)[2]>>

RECURSIVE DaysBefore(_)
DaysBefore(m) == IF m = 1 THEN 0 ELSE MonthLen[m - 1] + DaysBefore(m - 1)

\* pd.to_datetime(text): the day the three fields denote
ToDatetime(t) == DaysBefore(t[2]) + t[3] - 1

\* datetime.weekday(): Monday = 0
Weekday(d) == (d + 4) % 7

\* ---------------- HELPERS ----------------
\* today_utc is [day, minute]; astimezone(Asia/Kolkata) adds 5h30
IstDate(today_utc) == today_utc.day + ((today_utc.minute + IstOffset) \div MinutesPerDay)

\* (variant: the strict rule left out)
last_tuesday_lax(today_utc, strict) ==
    IstDate(today_utc) - ((Weekday(IstDate(today_utc)) - 1) % 7)

last_tuesday_ist(today_utc, strict) ==
    LET now_ist == IstDate(today_utc)
        wd == Weekday(now_ist)
        delta == IF strict /\ wd = 1 THEN 7 ELSE (wd - 1) % 7
    IN  now_ist - delta

\* get_text(strip=True)
RECURSIVE LStrip(_)
LStrip(s) == IF Len(s) > 0 /\ s[1] = ChSp THEN LStrip(Tail(s)) ELSE s

RECURSIVE RStrip(_)
RStrip(s) == IF Len(s) > 0 /\ s[Len(s)] = ChSp THEN RStrip(SubSeq(s, 1, Len(s) - 1)) ELSE s

Strip(s) == RStrip(LStrip(s))

\* rows of one page: soup.select("table tr")[1:101], then the rows with >= 3 cells
PageRows(page) == SubSeq(page, 2, Min(Len(page), MaxRows + 1))

RECURSIVE ParseRows(_, _, _, _)
ParseRows(rows, date_str, fmt, category) ==
    IF Len(rows) = 0 THEN <<>>
    ELSE LET cols == Head(rows)
             rest == ParseRows(Tail(rows), date_str, fmt, category)
         IN  IF Len(cols) >= 3
             THEN <<[Date |-> date_str, Format |-> fmt, Category |-> category,
                     Rank |-> Strip(cols[1]), Player |-> Strip(cols[2]),
                     Rating |-> Strip(cols[3])]>> \o rest
             ELSE rest

\* The classes of exception an attempt can raise: the request's (timeout,
\* connection) and the parser's; all derive from Exception.
ExceptionClasses == {"Timeout", "ConnectionError", "ParserError"}

\* (variant: the handler names the request's exceptions only)
CatchesRequestOnly(exc) == exc \in {"Timeout", "ConnectionError"}

\* except Exception
Catches(exc) == exc \in ExceptionClasses

\* (variant: a page without rows counts as a failed attempt)
RECURSIVE ScrapeLoopRetryEmpty(_, _, _, _, _, _, _)
ScrapeLoopRetryEmpty(date_str, fmt, category, responses, i, requests, sleeps) ==
    IF i > MAX_RETRIES
    THEN [rows |-> <<>>, requests |-> requests, sleeps |-> sleeps, raised |-> FALSE]
    ELSE LET r == responses[i] IN
         IF r.kind = "exc"
         THEN IF Catches(r.exc)
              THEN ScrapeLoopRetryEmpty(date_str, fmt, category, responses, i + 1,
                                        requests + 1, sleeps + 1)
              ELSE [rows |-> <<>>, requests |-> requests + 1, sleeps |-> sleeps, raised |-> TRUE]
         ELSE IF r.code # HTTP_OK \/ Len(PageRows(r.page)) = 0
         THEN ScrapeLoopRetryEmpty(date_str, fmt, category, responses, i + 1,
                                   requests + 1, sleeps)
         ELSE [rows |-> ParseRows(PageRows(r.page), date_str, fmt, category),
               requests |-> requests + 1, sleeps |-> sleeps, raised |-> FALSE]

\* One call of scrape_date.  responses[i] is what the i-th request meets:
\* kind "exc" (the request or the parse raises exc), or kind "resp" (a response
\* with status_code code and body page).  The value is the returned list with
\* the numbers of requests issued and of sleeps taken; raised tells whether an
\* exception left the function.
RECURSIVE ScrapeLoop(_, _, _, _, _, _, _)
ScrapeLoop(date_str, fmt, category, responses, i, requests, sleeps) ==
    IF i > MAX_RETRIES
    THEN [rows |-> <<>>, requests |-> requests, sleeps |-> sleeps, raised |-> FALSE]
    ELSE LET r == responses[i] IN
         IF r.kind = "exc"
         THEN IF Catches(r.exc)
              THEN ScrapeLoop(date_str, fmt, category, responses, i + 1, requests + 1, sleeps + 1)
              ELSE [rows |-> <<>>, requests |-> requests + 1, sleeps |-> sleeps, raised |-> TRUE]
         ELSE IF r.code # HTTP_OK
         THEN ScrapeLoop(date_str, fmt, category, responses, i + 1, requests + 1, sleeps)
         ELSE IF Len(PageRows(r.page)) = 0
         THEN [rows |-> <<>>, requests |-> requests + 1, sleeps |-> sleeps, raised |-> FALSE]
         ELSE [rows |-> ParseRows(PageRows(r.page), date_str, fmt, category),
               requests |-> requests + 1, sleeps |-> sleeps, raised |-> FALSE]

scrape_date(date_obj, fmt, category, responses) ==
    ScrapeLoop(Strftime(date_obj), fmt, category, responses, 1, 0, 0)


\* ---------------- the master file ----------------
\* A file row and a scraped row hold texts: Date the three fields of
\* YYYY/MM/DD, Format and Category the enumeration's word, Rank, Player and
\* Rating a text.  A data-frame row holds Date as a day and typed cells.
NoFile == [exists |-> FALSE, rows |-> <<>>]

\* pd.DataFrame(columns=[...])
EmptyFrame == <<>>

Column(rows, c) == [i \in 1..Len(rows) |-> rows[i][c]]

\* pd.read_csv's type inference for one column of texts: an empty field is
\* missing; all fields integers gives int64, or float64 when one is missing;
\* integers and floats give float64; anything else leaves the texts.
InferColumn(texts) ==
    LET present == {i \in 1..Len(texts) : Len(texts[i]) > 0}
        missing == (1..Len(texts)) \ present
        allInt == \A i \in present : IsDigits(texts[i])
        allNum == \A i \in present : IsDigits(texts[i]) \/ IsFloatText(texts[i])
        Num(t) == IF IsDigits(t) THEN ParseInt(t) ELSE ParseInt(SubSeq(t, 1, Len(t) - 2))
    IN  [i \in 1..Len(texts) |->
            IF i \in missing THEN NaN
            ELSE IF allInt /\ missing = {} THEN IntV(ParseInt(texts[i]))
            ELSE IF allNum THEN FloatV(Num(texts[i]))
            ELSE StrV(texts[i])]

\* pd.read_csv(OUTPUT_FILE) followed by pd.to_datetime on Date
ReadCsv(rows) ==
    LET rank == InferColumn(Column(rows, "Rank"))
        player == InferColumn(Column(rows, "Player"))
        rating == InferColumn(Column(rows, "Rating"))
    IN  [i \in 1..Len(rows) |->
            [Date |-> ToDatetime(rows[i].Date), Format |-> rows[i].Format,
             Category |-> rows[i].Category, Rank |-> rank[i],
             Player |-> player[i], Rating |-> rating[i]]]

\* the text to_csv writes for a cell
CellText(v) ==
    IF v.k = "int" THEN IntText(v.n)
    ELSE IF v.k = "float" THEN IntText(v.n) \o <<ChDot, Ch0>>
    ELSE IF v.k = "str" THEN v.s
    ELSE <<>>

\* combined["Date"].dt.strftime("%Y/%m/%d"); combined.to_csv(OUTPUT_FILE, index=False)
ToCsv(df) ==
    [i \in 1..Len(df) |->
        [Date |-> Strftime(df[i].Date), Format |-> df[i].Format,
         Category |-> df[i].Category, Rank |-> CellText(df[i].Rank),
         Player |-> CellText(df[i].Player), Rating |-> CellText(df[i].Rating)]]

\* main, "Load master file"
LoadMaster(f) == IF f.exists THEN ReadCsv(f.rows) ELSE EmptyFrame

\* pd.DataFrame(results, columns=[...]) with Date through pd.to_datetime:
\* the scraped texts stay Python strings
NewFrame(res) ==
    [i \in 1..Len(res) |->
        [Date |-> ToDatetime(res[i].Date), Format |-> res[i].Format,
         Category |-> res[i].Category, Rank |-> StrV(res[i].Rank),
         Player |-> StrV(res[i].Player), Rating |-> StrV(res[i].Rating)]]


\* ---------------- gap planning ----------------
Job(d, fmt, cat) == [date |-> d, fmt |-> fmt, cat |-> cat]

\* (variant: the day before the first cutoff)
SentinelBeforeFirstTuesday == EpochDay + 3

\* datetime(1971,1,1).date() - timedelta(days=1)
Sentinel == EpochDay - 1

MaxOf(S) == CHOOSE m \in S : \A x \in S : x <= m

\* last_date of one pair: df_sub["Date"].max(), or the sentinel when df_sub is empty
LastDate(df, fmt, cat) ==
    LET sub == {i \in 1..Len(df) : df[i].Format = fmt /\ df[i].Category = cat}
    IN  IF sub # {} THEN MaxOf({df[i].Date : i \in sub}) ELSE Sentinel

\* (variant: range() without the + 1)
PairJobsShort(df, end_date, fmt, cat) ==
    LET last_date == LastDate(df, fmt, cat)
        start_date == last_date + 1
    IN  IF last_date >= end_date THEN <<>>
        ELSE [i \in 1..(end_date - start_date) |-> Job(start_date + (i - 1), fmt, cat)]

\* the body of the two loops for one pair
PairJobs(df, end_date, fmt, cat) ==
    LET last_date == LastDate(df, fmt, cat)
        start_date == last_date + 1
    IN  IF last_date >= end_date THEN <<>>
        ELSE [i \in 1..(end_date - start_date + 1) |-> Job(start_date + (i - 1), fmt, cat)]

RECURSIVE CatLoop(_, _, _, _)
CatLoop(df, end_date, fmt, cats) ==
    IF Len(cats) = 0 THEN <<>>
    ELSE PairJobs(df, end_date, fmt, Head(cats)) \o CatLoop(df, end_date, fmt, Tail(cats))

RECURSIVE FmtLoop(_, _, _, _)
FmtLoop(df, end_date, fmts, cats) ==
    IF Len(fmts) = 0 THEN <<>>
    ELSE CatLoop(df, end_date, Head(fmts), cats) \o FmtLoop(df, end_date, Tail(fmts), cats)

\* main, "Determine scraping range": the list jobs
PlanJobs(df, end_date, fmts, cats) == FmtLoop(df, end_date, fmts, cats)

\* ---------------- merge ----------------
\* (variant: no drop_duplicates)
DropNothing(df) == df

\* (variant: keep=False, every row that has a duplicate goes)
DropDuplicatesKeepFalse(df) ==
    LET keep == {i \in 1..Len(df) : \A j \in (1..Len(df)) \ {i} : df[j] # df[i]}
        F[i \in 0..Len(df)] ==
            IF i = 0 THEN <<>>
            ELSE IF i \in keep THEN Append(F[i - 1], df[i]) ELSE F[i - 1]
    IN  F[Len(df)]

\* drop_duplicates(subset = all six columns), keep="first"
DropDuplicates(df) ==
    LET keep == {i \in 1..Len(df) : \A j \in 1..(i - 1) : df[j] # df[i]}
        F[i \in 0..Len(df)] ==
            IF i = 0 THEN <<>>
            ELSE IF i \in keep THEN Append(F[i - 1], df[i]) ELSE F[i - 1]
    IN  F[Len(df)]

\* the order of the words of the two enumerations as strings
Words == <<"batting", "bowling", "odi", "test">>
WordKey(w) == CHOOSE i \in 1..Len(Words) : Words[i] = w

\* the order sort_values gives a column of mixed cells when several keys are
\* sorted: numbers by value, then strings in string order, then missing
KindKey(v) == IF v.k \in {"int", "float"} THEN 0 ELSE IF v.k = "str" THEN 1 ELSE 2

CellLess(a, b) ==
    IF KindKey(a) # KindKey(b) THEN KindKey(a) < KindKey(b)
    ELSE IF KindKey(a) = 0 THEN a.n < b.n
    ELSE IF KindKey(a) = 1 THEN TextLess(a.s, b.s)
    ELSE FALSE

\* order by ["Format","Category","Date","Rank"]
RowLess(a, b) ==
    IF a.Format # b.Format THEN WordKey(a.Format) < WordKey(b.Format)
    ELSE IF a.Category # b.Category THEN WordKey(a.Category) < WordKey(b.Category)
    ELSE IF a.Date # b.Date THEN a.Date < b.Date
    ELSE CellLess(a.Rank, b.Rank)

\* put r behind the rows that are not greater than it (the sort is stable)
Insert(sorted, r) ==
    LET after == {i \in 1..Len(sorted) : RowLess(r, sorted[i])}
        pos == IF after = {} THEN Len(sorted) + 1
               ELSE CHOOSE i \in after : \A j \in after : i <= j
    IN  SubSeq(sorted, 1, pos - 1) \o <<r>> \o SubSeq(sorted, pos, Len(sorted))

\* (variant: no sort_values)
SortNothing(df) == df

SortValues(df) ==
    LET F[i \in 0..Len(df)] == IF i = 0 THEN <<>> ELSE Insert(F[i - 1], df[i])
    IN  F[Len(df)]

\* main, "Append + deduplicate": combined
Merge(df_master, res) == SortValues(DropDuplicates(df_master \o NewFrame(res)))


\* ---------------- the pages the site serves ----------------
T(n) == IntText(n)
NameA == <<Chr.A>>
NameB == <<Chr.B>>
Header == <<>>

\* the table rows (header first) of the page of one unit; a unit the site has
\* no ranking for gets a table with its header only
WebPage(d, fmt, cat) ==
    IF fmt = "odi" /\ cat = "batting" /\ d = 1
    THEN <<Header, <<T(10), NameB, T(850)>>, <<T(2), NameA, <<>> >>,
           <<T(10), NameB, T(850)>>, <<T(3)>>,
           <<T(10), NameB, T(850) \o <<ChDot, Ch0>> >> >>
    ELSE IF fmt = "odi" /\ cat = "batting" /\ d = 4
    THEN <<Header, << <<ChSp>> \o T(1) \o <<Chr.eq>>, NameA, T(900) \o <<ChSp>> >> >>
    ELSE <<Header>>

Exc(e) == [kind |-> "exc", exc |-> e, code |-> 0, page |-> <<>>]
Resp(c, page) == [kind |-> "resp", exc |-> "", code |-> c, page |-> page]

\* what one request for a unit can meet
Outcomes(d, fmt, cat) == {Exc("Timeout"), Resp(503, <<>>), Resp(HTTP_OK, WebPage(d, fmt, cat))}

\* the answers the requests of one call can meet in a run: the call reads no
\* answer behind the first one with status 200, so those are left out (a
\* timeout stands in their place), and the attempts that fail before it fail
\* the same way; every sequence of answers is met in FetchSpec
ResponseSeqs(d, fmt, cat) ==
    {rs \in [1..MAX_RETRIES -> Outcomes(d, fmt, cat)] :
        \A i \in 1..MAX_RETRIES : \A j \in 1..(i - 1) :
            /\ (rs[j].kind = "resp" /\ rs[j].code = HTTP_OK) => rs[i] = Exc("Timeout")
            /\ (rs[i].kind = "exc" \/ rs[i].code # HTTP_OK) =>
                   (rs[j] = rs[i] \/ (rs[j].kind = "resp" /\ rs[j].code = HTTP_OK))}

\* ---------------- bounds ----------------
NumWorkers == 2
MaxClockDay == 4
MaxPending == 1

\* ---------------- state ----------------
VARIABLES
    file,        \* OUTPUT_FILE on disk
    now,         \* the clock, UTC: [day, minute]
    strict,      \* last_tuesday_ist's strict argument
    formats,     \* the global FORMATS
    categories,  \* the global CATEGORIES
    pc,          \* where main stands
    df_master,   \* main's df_master
    end_date,    \* main's end_date
    jobs,        \* main's jobs
    results,     \* main's results
    next_job,    \* index of the next job the pool hands to a worker
    running,     \* the indices of the jobs the pool's running are running
    outqueue,    \* returned lists whose callback has not run yet
    returned,    \* per job of this run: the list scrape_date returned
    last_empty,  \* the units of the last finished run that returned an empty list
    missed,      \* the units of last_empty that this run's jobs leave out
    out,         \* the last line main printed
    combined,    \* main's combined
    again,       \* the merge of results into combined, once more
    responses,   \* what the requests of one scrape_date call meet
    ret          \* what that call returned

vars == <<file, now, strict, formats, categories, pc, df_master, end_date, jobs,
          results, next_job, running, outqueue, returned, last_empty, missed, out,
          combined, again, responses, ret>>

\* the place of a list in returned while its call has not returned
NotYet == <<[pending |-> TRUE]>>
NoRet == [rows |-> <<>>, requests |-> 0, sleeps |-> 0, raised |-> FALSE]
NoResponses == <<>>

fnVars == <<again, responses, ret>>
config == <<strict, formats, categories>>

\* ---------------- MAIN ----------------
Init ==
    /\ file = NoFile
    /\ now = [day |-> 3, minute |-> 1110]
    /\ strict = TRUE
    /\ formats = FORMATS
    /\ categories = CATEGORIES
    /\ pc = "idle"
    /\ df_master = EmptyFrame
    /\ end_date = Sentinel
    /\ jobs = <<>>
    /\ results = <<>>
    /\ next_job = 1
    /\ running = {}
    /\ outqueue = <<>>
    /\ returned = <<>>
    /\ last_empty = {}
    /\ missed = {}
    /\ out = ""
    /\ combined = <<>>
    /\ again = <<>>
    /\ responses = NoResponses
    /\ ret = NoRet

\* the units of a finished run whose call returned an empty list
EmptyUnits(js, rets) == {js[j] : j \in {i \in 1..Len(js) : rets[i] = <<>>}}

\* main returns: its locals are gone
Return ==
    /\ pc' = "idle"
    /\ df_master' = EmptyFrame
    /\ end_date' = Sentinel
    /\ jobs' = <<>>
    /\ results' = <<>>
    /\ returned' = <<>>
    /\ combined' = <<>>
    /\ next_job' = 1

\* (variant: the return with nothing to scrape saves the loaded master)
MainStartResaves ==
    /\ pc = "idle"
    /\ LET df == LoadMaster(file)
           cutoff == last_tuesday_ist(now, strict)
           planned == PlanJobs(df, cutoff, formats, categories)
       IN  /\ missed' = last_empty \ Range(planned)
           /\ IF planned = <<>>
              THEN /\ out' = "Nothing new to scrape."
                   /\ file' = [exists |-> TRUE, rows |-> ToCsv(df)]
                   /\ last_empty' = {}
                   /\ Return
              ELSE /\ out' = "Scraping jobs"
                   /\ file' = file
                   /\ pc' = "pool"
                   /\ df_master' = df
                   /\ end_date' = cutoff
                   /\ jobs' = planned
                   /\ returned' = [j \in 1..Len(planned) |-> NotYet]
                   /\ results' = <<>>
                   /\ next_job' = 1
                   /\ UNCHANGED <<last_empty, combined>>
    /\ UNCHANGED <<now, running, outqueue, config, fnVars>>

\* main from its start to the submission of the jobs to the pool, or to its
\* return when there is nothing to scrape
MainStart ==
    /\ pc = "idle"
    /\ LET df == LoadMaster(file)
           cutoff == last_tuesday_ist(now, strict)
           planned == PlanJobs(df, cutoff, formats, categories)
       IN  /\ missed' = last_empty \ Range(planned)
           /\ IF planned = <<>>
              THEN /\ out' = "Nothing new to scrape."
                   /\ last_empty' = {}
                   /\ Return
              ELSE /\ out' = "Scraping jobs"
                   /\ pc' = "pool"
                   /\ df_master' = df
                   /\ end_date' = cutoff
                   /\ jobs' = planned
                   /\ returned' = [j \in 1..Len(planned) |-> NotYet]
                   /\ results' = <<>>
                   /\ next_job' = 1
                   /\ UNCHANGED <<last_empty, combined>>
    /\ UNCHANGED <<file, now, running, outqueue, config, fnVars>>

\* (variant: a worker is handed one job and no second one)
TakeOnce ==
    /\ pc = "pool"
    /\ Cardinality(running) < NumWorkers
    /\ next_job <= Len(jobs)
    /\ next_job <= NumWorkers
    /\ running' = running \cup {next_job}
    /\ next_job' = next_job + 1
    /\ UNCHANGED <<file, now, pc, df_master, end_date, jobs, results, outqueue,
                   returned, last_empty, missed, out, combined, config, fnVars>>

\* an idle worker of the pool takes the next submitted job
Take ==
    /\ pc = "pool"
    /\ Cardinality(running) < NumWorkers
    /\ next_job <= Len(jobs)
    /\ running' = running \cup {next_job}
    /\ next_job' = next_job + 1
    /\ UNCHANGED <<file, now, pc, df_master, end_date, jobs, results, outqueue,
                   returned, last_empty, missed, out, combined, config, fnVars>>

\* the scrape_date call of job j runs to its end; its value goes to the
\* pool's result handler
Finish(j) ==
    /\ pc = "pool"
    /\ j \in running
    /\ Len(outqueue) < MaxPending
    /\ LET u == jobs[j]
       IN  \E rs \in ResponseSeqs(u.date, u.fmt, u.cat) :
              LET r == scrape_date(u.date, u.fmt, u.cat, rs)
              IN  /\ returned' = [returned EXCEPT ![j] = r.rows]
                  /\ outqueue' = IF r.raised THEN outqueue ELSE Append(outqueue, r.rows)
    /\ running' = running \ {j}
    /\ UNCHANGED <<file, now, pc, df_master, end_date, jobs, results, next_job,
                   last_empty, missed, out, combined, config, fnVars>>

\* (variant: results = res in place of results.extend(res))
CallbackAssign ==
    /\ pc = "pool"
    /\ outqueue # <<>>
    /\ results' = IF Head(outqueue) # <<>> THEN Head(outqueue) ELSE results
    /\ outqueue' = Tail(outqueue)
    /\ UNCHANGED <<file, now, pc, df_master, end_date, jobs, next_job, running,
                   returned, last_empty, missed, out, combined, config, fnVars>>

\* callback(res): if res: results.extend(res)
Callback ==
    /\ pc = "pool"
    /\ outqueue # <<>>
    /\ results' = IF Head(outqueue) # <<>> THEN results \o Head(outqueue) ELSE results
    /\ outqueue' = Tail(outqueue)
    /\ UNCHANGED <<file, now, pc, df_master, end_date, jobs, next_job, running,
                   returned, last_empty, missed, out, combined, config, fnVars>>

\* pool.join() can return: every job was handed out, no call is running and
\* no returned list waits for its callback
Joined ==
    /\ pc = "pool"
    /\ next_job > Len(jobs)
    /\ running = {}
    /\ outqueue = <<>>

\* (variant: no return when results is empty)
MainFinishAlwaysWrites ==
    /\ pc = "pool"
    /\ next_job > Len(jobs)
    /\ running = {}
    /\ outqueue = <<>>
    /\ file' = [exists |-> TRUE, rows |-> ToCsv(Merge(df_master, results))]
    /\ out' = "Updated master file"
    /\ last_empty' = EmptyUnits(jobs, returned)
    /\ Return
    /\ UNCHANGED <<now, running, outqueue, missed, config, fnVars>>

\* (variant: pool.close() without pool.join())
MainFinishNoJoin ==
    /\ pc = "pool"
    /\ next_job > Len(jobs)
    /\ IF results = <<>>
       THEN /\ out' = "No new data scraped."
            /\ file' = file
       ELSE /\ file' = [exists |-> TRUE, rows |-> ToCsv(Merge(df_master, results))]
            /\ out' = "Updated master file"
    /\ last_empty' = {}
    /\ Return
    /\ UNCHANGED <<now, running, outqueue, missed, config, fnVars>>

\* pool.join() returns; main from there to its end
MainFinish ==
    /\ Joined
    /\ IF results = <<>>
       THEN /\ out' = "No new data scraped."
            /\ file' = file
       ELSE /\ file' = [exists |-> TRUE, rows |-> ToCsv(Merge(df_master, results))]
            /\ out' = "Updated master file"
    /\ last_empty' = EmptyUnits(jobs, returned)
    /\ Return
    /\ UNCHANGED <<now, running, outqueue, missed, config, fnVars>>

\* a day passes between two runs
AdvanceClock ==
    /\ pc = "idle"
    /\ now.day < MaxClockDay
    /\ now' = [now EXCEPT !.day = now.day + 1]
    /\ UNCHANGED <<file, pc, df_master, end_date, jobs, results, next_job, running,
                   outqueue, returned, last_empty, missed, out, combined, config, fnVars>>

Next ==
    \/ MainStart
    \/ Take
    \/ \E j \in running : Finish(j)
    \/ Callback
    \/ MainFinish
    \/ AdvanceClock

Spec == Init /\ [][Next]_vars

\* ---------------- the cutoff alone ----------------
MaxCutoffDay == 20
Minutes == {0, 1109, 1110, 1439}

\* the variables a specification of one function leaves alone
PoolQuiet ==
    /\ results = <<>>
    /\ next_job = 1
    /\ running = {}
    /\ outqueue = <<>>
    /\ returned = <<>>
    /\ last_empty = {}
    /\ missed = {}
    /\ out = ""

CutoffInit ==
    /\ now \in [day : 0..MaxCutoffDay, minute : Minutes]
    /\ strict \in BOOLEAN
    /\ pc = "cutoff"
    /\ file = NoFile
    /\ formats = FORMATS
    /\ categories = CATEGORIES
    /\ df_master = EmptyFrame
    /\ end_date = Sentinel
    /\ jobs = <<>>
    /\ combined = <<>>
    /\ again = <<>>
    /\ responses = NoResponses
    /\ ret = NoRet
    /\ PoolQuiet

\* end_date = last_tuesday_ist(now, strict)
CutoffStep ==
    /\ pc = "cutoff"
    /\ end_date' = last_tuesday_ist(now, strict)
    /\ pc' = "cutoff_done"
    /\ UNCHANGED <<file, now, df_master, jobs, results, next_job, running, outqueue,
                   returned, last_empty, missed, out, combined, config, fnVars>>

CutoffNext == CutoffStep

CutoffSpec == CutoffInit /\ [][CutoffNext]_vars

\* ---------------- gap planning alone ----------------
MaxMark == 2
MaxCutoff == 4

Pairs == {<<FORMATS[i], CATEGORIES[j]>> : i \in 1..Len(FORMATS), j \in 1..Len(CATEGORIES)}

FileRow(d, fmt, cat, rank, player, rating) ==
    [Date |-> Strftime(d), Format |-> fmt, Category |-> cat,
     Rank |-> rank, Player |-> player, Rating |-> rating]

\* the rows a master file holds for one pair whose latest date is mark
MarkRows(fmt, cat, mark) ==
    IF mark < EpochDay THEN <<>>
    ELSE IF mark = EpochDay THEN <<FileRow(mark, fmt, cat, T(1), NameA, T(900))>>
    ELSE <<FileRow(EpochDay, fmt, cat, T(1), NameA, T(900)),
           FileRow(mark, fmt, cat, T(1), NameA, T(900))>>

\* a master file with the given latest date per pair, in the written order
MarkFile(w) ==
    MarkRows("odi", "batting", w[<<"odi", "batting">>])
    \o MarkRows("odi", "bowling", w[<<"odi", "bowling">>])
    \o MarkRows("test", "batting", w[<<"test", "batting">>])
    \o MarkRows("test", "bowling", w[<<"test", "bowling">>])

PlanInit ==
    /\ \E w \in [Pairs -> (EpochDay - 1)..MaxMark] : df_master = ReadCsv(MarkFile(w))
    /\ end_date \in (EpochDay - 2)..MaxCutoff
    /\ formats \in {FORMATS, <<"odi">>}
    /\ categories \in {CATEGORIES, <<"batting">>}
    /\ pc = "plan"
    /\ file = NoFile
    /\ now = [day |-> 0, minute |-> 0]
    /\ strict = TRUE
    /\ jobs = <<>>
    /\ combined = <<>>
    /\ again = <<>>
    /\ responses = NoResponses
    /\ ret = NoRet
    /\ PoolQuiet

\* the loops of main, "Determine scraping range"
PlanStep ==
    /\ pc = "plan"
    /\ jobs' = PlanJobs(df_master, end_date, formats, categories)
    /\ pc' = "planned"
    /\ UNCHANGED <<file, now, df_master, end_date, results, next_job, running, outqueue,
                   returned, last_empty, missed, out, combined, config, fnVars>>

PlanNext == PlanStep

PlanSpec == PlanInit /\ [][PlanNext]_vars

\* ---------------- one scrape_date call alone ----------------
Pages ==
    { <<>>,
      <<Header>>,
      <<Header, <<T(2)>>, <<T(3), NameB>> >>,
      <<Header, <<T(1), NameA, T(900)>> >>,
      <<Header, <<T(2)>>, <<T(10), NameB, T(850), NameA>>, <<T(2), NameA, <<>> >> >> }

FetchOutcomes ==
    {Exc(e) : e \in ExceptionClasses}
    \cup {Resp(c, <<>>) : c \in {404, 503}}
    \cup {Resp(HTTP_OK, p) : p \in Pages}

FetchInit ==
    /\ \E d \in {1, 4} : jobs = <<Job(d, "odi", "batting")>>
    /\ responses \in [1..MAX_RETRIES -> FetchOutcomes]
    /\ pc = "fetch"
    /\ file = NoFile
    /\ now = [day |-> 0, minute |-> 0]
    /\ strict = TRUE
    /\ formats = FORMATS
    /\ categories = CATEGORIES
    /\ df_master = EmptyFrame
    /\ end_date = Sentinel
    /\ combined = <<>>
    /\ again = <<>>
    /\ ret = NoRet
    /\ PoolQuiet

\* scrape_date(d, fmt, cat) against the answers in responses
ScrapeStep ==
    /\ pc = "fetch"
    /\ ret' = scrape_date(jobs[1].date, jobs[1].fmt, jobs[1].cat, responses)
    /\ pc' = "fetched"
    /\ UNCHANGED <<file, now, df_master, end_date, jobs, results, next_job, running,
                   outqueue, returned, last_empty, missed, out, combined, config,
                   again, responses>>

FetchNext == ScrapeStep

FetchSpec == FetchInit /\ [][FetchNext]_vars

\* ---------------- load and merge alone ----------------
MaxBatch == 2

Eq1 == T(1) \o <<Chr.eq>>

\* rows a scrape can return
BatchRows ==
    { FileRow(1, "odi", "batting", T(1), NameA, T(900)),
      FileRow(1, "odi", "batting", T(2), NameB, T(850)),
      FileRow(4, "odi", "batting", T(10), NameB, T(850)),
      FileRow(4, "odi", "batting", T(2), NameA, <<>>),
      FileRow(0, "odi", "bowling", Eq1, NameA, T(900)),
      FileRow(1, "test", "batting", T(1), NameB, T(900)) }

Batches == UNION {[1..n -> BatchRows] : n \in 1..MaxBatch}

\* the files one writing run leaves
WrittenFiles == {[exists |-> TRUE, rows |-> ToCsv(Merge(EmptyFrame, b))] : b \in Batches}

\* a batch the jobs planned for a loaded master can bring: every row has a
\* date after the latest date the master holds for the row's pair
Fetchable(f, b) ==
    \A i \in 1..Len(b) :
        ToDatetime(b[i].Date) > LastDate(LoadMaster(f), b[i].Format, b[i].Category)

MergeInit ==
    /\ file \in {NoFile} \cup WrittenFiles
    /\ results \in Batches
    /\ Fetchable(file, results)
    /\ pc = "load"
    /\ now = [day |-> 0, minute |-> 0]
    /\ strict = TRUE
    /\ formats = FORMATS
    /\ categories = CATEGORIES
    /\ df_master = EmptyFrame
    /\ end_date = Sentinel
    /\ jobs = <<>>
    /\ next_job = 1
    /\ running = {}
    /\ outqueue = <<>>
    /\ returned = <<>>
    /\ last_empty = {}
    /\ missed = {}
    /\ out = ""
    /\ combined = <<>>
    /\ again = <<>>
    /\ responses = NoResponses
    /\ ret = NoRet

\* main, "Load master file"
LoadStep ==
    /\ pc = "load"
    /\ df_master' = LoadMaster(file)
    /\ pc' = "merge"
    /\ UNCHANGED <<file, now, end_date, jobs, results, next_job, running, outqueue,
                   returned, last_empty, missed, out, combined, config, fnVars>>

\* main, "Append + deduplicate"
MergeStep ==
    /\ pc = "merge"
    /\ combined' = Merge(df_master, results)
    /\ pc' = "again"
    /\ UNCHANGED <<file, now, df_master, end_date, jobs, results, next_job, running,
                   outqueue, returned, last_empty, missed, out, config, fnVars>>

\* the same batch merged into the merged frame
MergeAgain ==
    /\ pc = "again"
    /\ again' = Merge(combined, results)
    /\ pc' = "merged"
    /\ UNCHANGED <<file, now, df_master, end_date, jobs, results, next_job, running,
                   outqueue, returned, last_empty, missed, out, combined, config,
                   responses, ret>>

MergeNext == LoadStep \/ MergeStep \/ MergeAgain

MergeSpec == MergeInit /\ [][MergeNext]_vars


\* ---------------- the runs under fair scheduling ----------------
\* An idle worker takes a waiting job; a request returns or times out, so a
\* running call returns; the pool's result handler runs the callbacks; and
\* main goes on when join can return.  The last one is weak fairness of
\* MainFinish: that step is possible exactly in the states Joined and leaves
\* them, so it is stated as: main is not left in Joined for ever.
Fairness ==
    /\ WF_vars(Take)
    /\ WF_vars(\E j \in running : Finish(j))
    /\ WF_vars(Callback)
    /\ []<>(~Joined)

\* the latest date the master of FairInit holds for every pair
FairMark == 1

\* the runs start with a master that earlier runs have written
FairInit ==
    /\ file = [exists |-> TRUE, rows |-> MarkFile([p \in Pairs |-> FairMark])]
    /\ now = [day |-> 3, minute |-> 1110]
    /\ strict = TRUE
    /\ formats = FORMATS
    /\ categories = CATEGORIES
    /\ pc = "idle"
    /\ df_master = EmptyFrame
    /\ end_date = Sentinel
    /\ jobs = <<>>
    /\ combined = <<>>
    /\ again = <<>>
    /\ responses = NoResponses
    /\ ret = NoRet
    /\ PoolQuiet

FairSpec == FairInit /\ [][Next]_vars /\ Fairness


\* ---------------- runs on a persisted master ----------------
\* the clock of these runs: the cutoff is the first Tuesday, 1971-01-05
SeedClock == [day |-> MaxClockDay, minute |-> 1110]

\* the rows the first run fetched: for every pair a ranking of 1971-01-01 and
\* one of the pair's latest date, and the page of 1971-01-02 for (odi, batting)
SeedBatch(w) ==
    MarkFile(w) \o ParseRows(PageRows(WebPage(1, "odi", "batting")),
                             Strftime(1), "odi", "batting")

\* the masters that run has written: the latest date of every pair is the
\* cutoff or the day before it
SeedFiles ==
    LET cutoff == last_tuesday_ist(SeedClock, TRUE)
    IN  {[exists |-> TRUE, rows |-> ToCsv(Merge(EmptyFrame, SeedBatch(w)))] :
            w \in [Pairs -> (cutoff - 1)..cutoff]}

SeedInit ==
    /\ file \in SeedFiles
    /\ now = SeedClock
    /\ strict = TRUE
    /\ formats = FORMATS
    /\ categories = CATEGORIES
    /\ pc = "idle"
    /\ df_master = EmptyFrame
    /\ end_date = Sentinel
    /\ jobs = <<>>
    /\ combined = <<>>
    /\ again = <<>>
    /\ responses = NoResponses
    /\ ret = NoRet
    /\ PoolQuiet

\* the runs at that clock
SeedNext ==
    \/ MainStart
    \/ Take
    \/ \E j \in running : Finish(j)
    \/ Callback
    \/ MainFinish

SeedSpec == SeedInit /\ [][SeedNext]_vars

\* ---------------- properties ----------------
\* the watermark of a pair: the latest date the master holds for it, the
\* sentinel when it holds none
WatermarkOf(df, fmt, cat) ==
    LET ds == {df[i].Date : i \in {k \in 1..Len(df) : df[k].Format = fmt /\ df[k].Category = cat}}
    IN  IF ds = {} THEN Sentinel ELSE CHOOSE m \in ds : \A x \in ds : x <= m

Occurrences(js, u) == Cardinality({i \in 1..Len(js) : js[i] = u})

\* C1: the planned jobs are, for every pair, exactly one unit per date after
\* the pair's watermark up to the cutoff, none for another date, none twice,
\* and none at all for a pair whose watermark has reached the cutoff.
C1_GapPlanning ==
    pc = "planned" =>
        /\ \A i \in 1..Len(jobs) :
              jobs[i].fmt \in Range(formats) /\ jobs[i].cat \in Range(categories)
        /\ \A i \in 1..Len(jobs) : \A j \in 1..Len(jobs) : i # j => jobs[i] # jobs[j]
        /\ \A fmt \in Range(formats) : \A cat \in Range(categories) :
              LET W == WatermarkOf(df_master, fmt, cat) IN
              /\ \A d \in (W + 1)..end_date : Occurrences(jobs, Job(d, fmt, cat)) = 1
              /\ \A i \in 1..Len(jobs) :
                    (jobs[i].fmt = fmt /\ jobs[i].cat = cat)
                        => (W < jobs[i].date /\ jobs[i].date <= end_date)
              /\ W >= end_date =>
                    ~\E i \in 1..Len(jobs) : jobs[i].fmt = fmt /\ jobs[i].cat = cat

C1_Witness ==
    /\ pc = "planned"
    /\ formats = FORMATS
    /\ categories = CATEGORIES
    /\ end_date = 2
    /\ WatermarkOf(df_master, "odi", "batting") = 2
    /\ WatermarkOf(df_master, "odi", "bowling") = 0
    /\ WatermarkOf(df_master, "test", "bowling") = Sentinel
    /\ Occurrences(jobs, Job(1, "odi", "bowling")) = 1
    /\ Occurrences(jobs, Job(2, "odi", "bowling")) = 1
    /\ Occurrences(jobs, Job(0, "test", "bowling")) = 1

\* C2: every unit that returned an empty list in one run is among the jobs
\* of the next run.
C2_SelfHealing == missed = {}

\* C3: merging the same batch a second time changes nothing.
C3_MergeIdempotent == pc = "merged" => again = combined

C3_Witness ==
    /\ pc = "merged"
    /\ Len(df_master) > 0
    /\ Len(results) = 2
    /\ results[1] = results[2]
    /\ Len(combined) = Len(df_master) + 1
    /\ again = combined

\* a loaded record and a fetched one are the same observation
SameIdentity(row, fetched) ==
    /\ row.Date = ToDatetime(fetched.Date)
    /\ row.Format = fetched.Format
    /\ row.Category = fetched.Category
    /\ CellText(row.Rank) = fetched.Rank
    /\ CellText(row.Player) = fetched.Player
    /\ CellText(row.Rating) = fetched.Rating

\* C4: the case of the claim, a fetched record with the identity of a record
\* of the loaded master, is met in no run: the jobs of a pair are of dates
\* after the latest date the loaded master holds for it.
C4_NeverRefetched ==
    pc = "pool" =>
        \A i \in 1..Len(results) : \A k \in 1..Len(df_master) :
            ~SameIdentity(df_master[k], results[i])

\* C5: the persisted master never holds the same record twice.
C5_MasterUnique ==
    \A i \in 1..Len(file.rows) : \A j \in 1..Len(file.rows) :
        i # j => file.rows[i] # file.rows[j]

FloatText(n) == T(n) \o <<ChDot, Ch0>>

C5_Witness ==
    /\ file.exists
    /\ Cardinality({i \in 1..Len(file.rows) :
                       /\ file.rows[i].Date = Strftime(1)
                       /\ file.rows[i].Rank = T(10)}) = 1
    /\ \E i \in 1..Len(file.rows) : file.rows[i].Rating = FloatText(850)
    /\ \E i \in 1..Len(file.rows) : file.rows[i].Date = Strftime(4)

\* the date in Asia/Kolkata at a UTC instant: midnight there is 18:30 UTC
LocalDate(t) == IF t.minute >= 1110 THEN t.day + 1 ELSE t.day

\* C6: in strict mode the cutoff is a Tuesday 1 to 7 days before the current
\* date in Asia/Kolkata: 7 days before when that date is a Tuesday, the most
\* recent Tuesday before it otherwise.
C6_CutoffStrict ==
    (pc = "cutoff_done" /\ strict) =>
        LET today == LocalDate(now) IN
        /\ Weekday(end_date) = 1
        /\ today - end_date \in 1..7
        /\ Weekday(today) = 1 => end_date = today - 7
        /\ Weekday(today) # 1 => \A d \in (end_date + 1)..today : Weekday(d) # 1

C6_Witness ==
    /\ pc = "cutoff_done"
    /\ strict
    /\ now.minute >= 1110
    /\ Weekday(now.day) = 0
    /\ end_date = now.day + 1 - 7

\* an attempt that failed: an exception, or a status other than 200
Failed(r) == r.kind = "exc" \/ r.code # HTTP_OK

\* the data rows of a page that have three cells
Usable(page) == {i \in 2..Len(page) : Len(page[i]) >= 3}

\* C7: scrape_date raises nothing; it returns an empty list when every
\* attempt fails, and when an attempt succeeds with a page without a usable row.
C7_FetchDegrades ==
    pc = "fetched" =>
        /\ ~ret.raised
        /\ (\A i \in 1..MAX_RETRIES : Failed(responses[i])) => ret.rows = <<>>
        /\ \A i \in 1..MAX_RETRIES :
              (/\ \A j \in 1..(i - 1) : Failed(responses[j])
               /\ ~Failed(responses[i])
               /\ Usable(responses[i].page) = {}) => ret.rows = <<>>

C7_Witness ==
    /\ pc = "fetched"
    /\ responses[1].kind = "exc" /\ responses[1].exc = "ParserError"
    /\ responses[2].kind = "resp" /\ responses[2].code = 503
    /\ responses[3].kind = "exc" /\ responses[3].exc = "Timeout"
    /\ ret.rows = <<>>
    /\ ~ret.raised

\* every pair's watermark has reached the cutoff
Covered ==
    \A fmt \in Range(formats) : \A cat \in Range(categories) :
        WatermarkOf(LoadMaster(file), fmt, cat) >= last_tuesday_ist(now, strict)

\* C8: a run that finds every pair covered plans no job, starts no worker,
\* issues no request and leaves the file as it is.
C8_NothingNew ==
    [][(MainStart /\ Covered) =>
          /\ pc' = "idle"
          /\ jobs' = <<>>
          /\ running' = {}
          /\ next_job' = 1
          /\ outqueue' = <<>>
          /\ results' = <<>>
          /\ file' = file
          /\ out' = "Nothing new to scrape."]_vars

\* a run has found the persisted master covered up to the cutoff 1971-01-05
\* and has returned
C8_Witness ==
    /\ pc = "idle"
    /\ out = "Nothing new to scrape."
    /\ Covered
    /\ file.exists
    /\ last_tuesday_ist(now, strict) = ToDatetime(<<1971, 1, 5>>)
    /\ \A p \in Pairs : WatermarkOf(LoadMaster(file), p[1], p[2]) = ToDatetime(<<1971, 1, 5>>)
    /\ \E i \in 1..Len(file.rows) : file.rows[i].Rating = <<>>

\* the scenario: nothing in the master, cutoff 1971-01-05, one pair
Scenario ==
    /\ pc = "planned"
    /\ df_master = EmptyFrame
    /\ end_date = ToDatetime(<<1971, 1, 5>>)
    /\ formats = <<"odi">>
    /\ categories = <<"batting">>

\* C9 (as stated): in the scenario the planner emits the one unit
\* (1971-01-05, odi, batting).
C9_OneUnit == Scenario => jobs = <<Job(4, "odi", "batting")>>

\* C9 (amended): in the scenario the planner emits five units, one per date
\* from 1971-01-01 to 1971-01-05, for (odi, batting).
C9_FiveUnits ==
    Scenario =>
        /\ Len(jobs) = 5
        /\ \A i \in 1..5 :
              /\ Strftime(jobs[i].date) = <<1971, 1, i>>
              /\ jobs[i].fmt = "odi"
              /\ jobs[i].cat = "batting"

C9_Witness == Scenario /\ Len(jobs) = 5

\* C10: a record of the persisted master is still in it after any step.
C10_AppendOnly ==
    [][\A i \in 1..Len(file.rows) : file.rows[i] \in Range(file'.rows)]_vars

\* the lists of the calls that have returned, one behind the other in job order
RECURSIVE Flatten(_)
Flatten(rets) ==
    IF Len(rets) = 0 THEN <<>>
    ELSE (IF Head(rets) = NotYet THEN <<>> ELSE Head(rets)) \o Flatten(Tail(rets))

\* two lists hold the same rows the same number of times
SameBag(a, b) ==
    /\ Len(a) = Len(b)
    /\ \A x \in Range(a) \cup Range(b) : Occurrences(a, x) = Occurrences(b, x)

\* C11: during the fetch phase a job has returned exactly when it was handed
\* to a worker and is no longer running, so it is called once; every planned
\* unit is one job; and when the pool is joined every job has returned and
\* results holds the rows of all returned lists, each as often as returned.
C11_ExactlyOnce ==
    pc = "pool" =>
        /\ Len(returned) = Len(jobs)
        /\ \A i \in 1..Len(jobs) : \A j \in 1..Len(jobs) : i # j => jobs[i] # jobs[j]
        /\ \A j \in 1..Len(jobs) :
              (returned[j] # NotYet) <=> (j < next_job /\ j \notin running)
        /\ Joined =>
              /\ \A j \in 1..Len(jobs) : returned[j] # NotYet
              /\ SameBag(results, Flatten(returned))

C11_Witness ==
    /\ Joined
    /\ \E i \in 1..Len(jobs) : \E j \in 1..Len(jobs) : \E k \in 1..Len(jobs) :
          /\ i # j
          /\ Len(returned[i]) = 4
          /\ Len(returned[j]) = 1
          /\ returned[k] = <<>>
    /\ Len(results) = 5

\* the ordinal a rank text stands for: the number its leading digits write
\* ("10" is 10, "1=" is 1, "10.0" is 10)
RankOrdinal(t) ==
    LET stop == {i \in 1..Len(t) : ~IsDigits(<<t[i]>>)}
        n == IF stop = {} THEN Len(t) ELSE (CHOOSE i \in stop : \A j \in stop : i <= j) - 1
    IN  IF n = 0 THEN 0 ELSE ParseInt(SubSeq(t, 1, n))

\* line a of the file stands before line b in the order by
\* (format, category, date, rank as ordinal)
CanonicalBefore(a, b) ==
    IF a.Format # b.Format THEN WordKey(a.Format) < WordKey(b.Format)
    ELSE IF a.Category # b.Category THEN WordKey(a.Category) < WordKey(b.Category)
    ELSE IF a.Date # b.Date THEN ToDatetime(a.Date) < ToDatetime(b.Date)
    ELSE RankOrdinal(a.Rank) < RankOrdinal(b.Rank)

\* C12: the lines of the persisted master stand in ascending order by
\* (format, category, date, rank), the ranks in the order of their ordinals,
\* and no line is there twice.
C12_CanonicalOrder ==
    \A i \in 1..Len(file.rows) : \A j \in 1..Len(file.rows) :
        i < j => (file.rows[i] # file.rows[j] /\ ~CanonicalBefore(file.rows[j], file.rows[i]))

\* C13: a call issues at most MAX_RETRIES requests; the first attempt that
\* gets status 200 and parses, with rows or without, is the last request of
\* the call; when every attempt fails, the call issues MAX_RETRIES requests.
C13_BoundedRetry ==
    pc = "fetched" =>
        /\ ret.requests <= MAX_RETRIES
        /\ \A i \in 1..MAX_RETRIES :
              (/\ \A j \in 1..(i - 1) : Failed(responses[j])
               /\ ~Failed(responses[i])) => ret.requests = i
        /\ (\A i \in 1..MAX_RETRIES : Failed(responses[i])) => ret.requests = MAX_RETRIES

C13_Witness ==
    /\ pc = "fetched"
    /\ responses[1].kind = "resp" /\ responses[1].code = 503
    /\ responses[2].kind = "resp" /\ responses[2].code = HTTP_OK
    /\ Len(PageRows(responses[2].page)) = 0
    /\ responses[3].kind = "resp" /\ responses[3].code = HTTP_OK
    /\ ret.requests = 2
    /\ ret.rows = <<>>

\* C14: a call has slept once for every failed attempt that a further
\* attempt followed, whether the attempt failed by its status or by an exception.
C14_Backoff ==
    pc = "fetched" =>
        ret.sleeps >= Cardinality({i \in 1..(ret.requests - 1) : Failed(responses[i])})

\* C15: while the units of a run are fetched the file is not touched, and
\* the step that ends a run whose units all returned an empty list prints
\* "No new data scraped." and leaves the file as it was: no merge, no write.
C15_EmptyBatch ==
    [][(/\ pc = "pool"
        /\ (pc' = "pool" \/ \A j \in 1..Len(jobs) : returned[j] = <<>>))
           => (/\ file' = file
               /\ pc' = "idle" => out' = "No new data scraped.")]_vars

C15_Witness ==
    /\ pc = "idle"
    /\ out = "No new data scraped."
    /\ file.exists
    /\ last_empty # {}
    /\ Len(file.rows) = 3

\* C16: a step that ends the fetch phase of a run, or that changes the file,
\* is taken only when every job was handed out, every call has returned and
\* every returned list has been through the callback.
C16_FetchBeforeMerge ==
    [][((pc = "pool" /\ pc' # "pool") \/ file' # file)
           => (/\ Joined
               /\ \A j \in 1..Len(jobs) : returned[j] # NotYet
               /\ SameBag(results, Flatten(returned)))]_vars

C16_Witness ==
    /\ pc = "idle"
    /\ out = "Updated master file"
    /\ running = {}
    /\ outqueue = <<>>
    /\ Len(file.rows) = 1
    /\ file.rows[1].Date = Strftime(4)

\* C17: the file a run writes is the merge of the loaded master with the
\* returned lists taken in the order of the jobs, whatever the order in which
\* the calls returned and their rows reached results.
C17_OrderInsensitive ==
    [][(pc = "pool" /\ pc' = "idle" /\ results # <<>>)
           => file'.rows = ToCsv(Merge(df_master, Flatten(returned)))]_vars

\* the pool is joined and the rows of the later unit reached results before
\* the rows of the earlier one
C17_Witness ==
    /\ Joined
    /\ Len(results) = 5
    /\ results[1].Date = Strftime(4)
    /\ results[2].Date = Strftime(1)

\* the watermark of a pair in a file
FileMark(f, fmt, cat) == WatermarkOf(LoadMaster(f), fmt, cat)

\* C19: no step lowers the watermark of a pair, and the step of a run that
\* writes the file raises the watermark of at least one pair and leaves the
\* file with more rows than it had.
C19_WatermarkProgress ==
    [][/\ \A fmt \in Range(FORMATS) : \A cat \in Range(CATEGORIES) :
             FileMark(file', fmt, cat) >= FileMark(file, fmt, cat)
       /\ (pc = "pool" /\ pc' = "idle" /\ results # <<>>) =>
             /\ \E fmt \in Range(FORMATS) : \E cat \in Range(CATEGORIES) :
                   FileMark(file', fmt, cat) > FileMark(file, fmt, cat)
             /\ Len(file'.rows) > Len(file.rows)]_vars

\* C18: a run that has planned jobs comes to its end, after the join with
\* nothing fetched or after the write; a run without jobs ends in its first
\* step, so main is never anywhere but between two runs or in the fetch phase.
C18_Termination ==
    /\ [](pc \in {"idle", "pool"})
    /\ (pc = "pool") ~>
          (pc = "idle" /\ out \in {"No new data scraped.", "Updated master file"})

\* a run whose units all failed or found nothing has come to its end
C18_Witness ==
    /\ pc = "idle"
    /\ out = "No new data scraped."
    /\ file.exists
    /\ Cardinality(last_empty) > Len(FORMATS) * Len(CATEGORIES)
    /\ missed = {}

====
